---------------------------- MODULE Spec2Model ----------------------------
(***************************************************************************)
(* A model of the SHeM ray-tracing simulation: the intersection tests of   *)
(* intersect_detection3D.c, the per-pixel ray loop of tracingSimpleGenMex.c *)
(* and the pixel scan of rectangularScan (import_newPlate.m).               *)
(*                                                                         *)
(* The C code computes in double; the model computes the same expressions  *)
(* exactly, over rationals <<numerator, denominator>> in lowest terms.     *)
(***************************************************************************)
EXTENDS Integers, Sequences, FiniteSets, TLC

(***************************************************************************)
(* Exact arithmetic standing for the C doubles.                            *)
(***************************************************************************)
Abs(n) == IF n < 0 THEN -n ELSE n

RECURSIVE GCD(_, _)
GCD(a, b) == IF b = 0 THEN a ELSE GCD(b, a % b)

\* the double n/d, in lowest terms with a positive denominator
Rat(n, d) ==
    LET g == GCD(Abs(n), Abs(d))
        s == IF d < 0 THEN -1 ELSE 1
    IN  <<(s * n) \div g, (s * d) \div g>>

R(n) == <<n, 1>>
Zero == R(0)
One == R(1)

\* the initial value of min_dist: larger than every squared distance
Inf == <<1, 0>>

RAdd(x, y) == Rat(x[1] * y[2] + y[1] * x[2], x[2] * y[2])
RNeg(x) == <<-x[1], x[2]>>
RSub(x, y) == RAdd(x, RNeg(y))
RMul(x, y) == Rat(x[1] * y[1], x[2] * y[2])
RDiv(x, y) == Rat(x[1] * y[2], x[2] * y[1])
RLt(x, y) == x[1] * y[2] < y[1] * x[2]
RLe(x, y) == x[1] * y[2] <= y[1] * x[2]
RGt(x, y) == RLt(y, x)
RGe(x, y) == RLe(y, x)
RSq(x) == RMul(x, x)

\* sqrt() on the values the model's scenes produce: exact rational roots
ISqrt(n) == CHOOSE k \in 0..n : k * k = n
RSqrt(x) == <<ISqrt(x[1]), ISqrt(x[2])>>

\* a 3-vector of integers as a 3-vector of doubles
V3(x, y, z) == <<R(x), R(y), R(z)>>
\* a 3-vector of fifths: the unit directions (3/5, 4/5, 0), ...
V5(x, y, z) == <<Rat(x, 5), Rat(y, 5), Rat(z, 5)>>

dot(a, b) == RAdd(RAdd(RMul(a[1], b[1]), RMul(a[2], b[2])), RMul(a[3], b[3]))
\* propagate(init, direction, a, new): new = init + a*direction
propagate(e, d, a) ==
    <<RAdd(e[1], RMul(a, d[1])), RAdd(e[2], RMul(a, d[2])), RAdd(e[3], RMul(a, d[3]))>>
VSub(a, b) == <<RSub(a[1], b[1]), RSub(a[2], b[2]), RSub(a[3], b[3])>>

(***************************************************************************)
(* Faulty variants of single comparisons and indices of the source: each   *)
(* is a slip the source could have made.  Every property confirmed below   *)
(* fails when the definition it rests on is replaced by its variant.       *)
(***************************************************************************)
\* a tie replaces the candidate (<= for <)
NotFurther(dist, min_dist) == RLe(dist, min_dist)

\* a hit on the rim of the ellipse counts as inside (<= 1 for < 1)
OnOrInside(test) == RLe(test, One)

\* every traced ray is binned, whatever its outcome
AnyOutcome(state) == state \in {"Detected", "Escaped", "Killed"}

\* the histogram indexed by nScatters - 2
IndexFromTwo(n) == n - 2

\* the histogram indexed by nScatters
IndexFromZero(n) == n

\* the loop runs while idx <= n
UpToAndIncluding(idx, n) == idx <= n

\* the handle itself is handed on where a copy of the object is due
SameHandle(obj, fresh) == obj

\* the column of the output derived from the pixel index by halving
HalfColumn(idx) == (idx + 1) \div 2

\* the own facet recognised by its index alone, whatever surface the ray is on
OnThisElement(the_ray, sample, j) == the_ray.on_element = j

\* the number of inputs checked, the number of outputs not
InputsOnly(n_rhs, n_lhs) == n_rhs = 18

\* a hit exactly on an edge or a vertex of the triangle does not count
StrictlyInside(u) ==
    /\ RGt(u[1], Zero)
    /\ RGt(u[2], Zero)
    /\ RLt(RAdd(u[1], u[2]), One)
    /\ RGt(u[3], Zero)

\* the zero root taken for a hit (distance >= 0 for distance > 0)
ZeroRootCounts(distance, min_dist) ==
    RLt(RSq(distance), min_dist) /\ RGe(distance, Zero)

\* x_pix without the case of an index that is a multiple of nz_pixels
FloorOnly(idx, nz) == idx \div nz

\* a wall at exactly the distance of the candidate taken for nearer
WallAtMost(alpha, min_dist) == RLe(RSq(alpha), min_dist)

\* a triangle culled as soon as one of its vertices is behind the ray
AnyVertexBehind(el, e, d) ==
    \/ RLt(dot(VSub(el.a, e), d), Zero)
    \/ RLt(dot(VSub(el.b, e), d), Zero)
    \/ RLt(dot(VSub(el.c, e), d), Zero)

\* the plate disc tested without asking whether the plate is represented
DiscOnly(wall_hit, wallPlate) ==
    RLe(RAdd(RSq(wall_hit[1]), RSq(wall_hit[3])), RSq(wallPlate.circle_plate_r))

(***************************************************************************)
(* Geometry primitives declared in small_functions3D.h / ray_tracing_core3D.h *)
(***************************************************************************)
det3(M) ==
    RAdd(RSub(RMul(M[1][1], RSub(RMul(M[2][2], M[3][3]), RMul(M[2][3], M[3][2]))),
              RMul(M[1][2], RSub(RMul(M[2][1], M[3][3]), RMul(M[2][3], M[3][1])))),
         RMul(M[1][3], RSub(RMul(M[2][1], M[3][2]), RMul(M[2][2], M[3][1]))))

\* the matrix M with column k replaced by the vector v
SetCol(M, k, v) == [i \in 1..3 |-> [j \in 1..3 |-> IF j = k THEN v[i] ELSE M[i][j]]]

\* |det| <= epsilon with epsilon = 1e-10: every determinant of the model is a
\* rational with a denominator far below 1e10, so it is within epsilon of 0
\* exactly when it is 0
WithinEpsilon(dt) == dt[1] = 0

\* solve3x3(A, u, v, epsilon, &success): u solves A u = v, success = 0 iff
\* |det A| <= epsilon, and then u keeps its initial value {0, 0, 0}
solve3x3(AA, v) ==
    LET dt == det3(AA)
    IN  IF WithinEpsilon(dt)
        THEN [success |-> 0, u |-> <<Zero, Zero, Zero>>]
        ELSE [success |-> 1,
              u |-> <<RDiv(det3(SetCol(AA, 1, v)), dt),
                      RDiv(det3(SetCol(AA, 2, v)), dt),
                      RDiv(det3(SetCol(AA, 3, v)), dt)>>]

\* get_element3D(&sample, j, a, b, c, normal): the vertices and the normal of
\* face j (0-based) of a surface
get_element3D(sample, j) ==
    LET f == sample.faces[j + 1]
    IN  [a |-> sample.vertices[f[1]], b |-> sample.vertices[f[2]],
         c |-> sample.vertices[f[3]], normal |-> sample.normals[j + 1]]

\* get_nth_aperture(i, &wallPlate, &plate): centre and full axes of aperture i
get_nth_aperture(i, wallPlate) ==
    [aperture_c |-> wallPlate.aperture_c[i + 1],
     aperture_axes |-> wallPlate.aperture_axes[i + 1]]

(***************************************************************************)
(* scatterTriag: one iteration of the loop over the triangles of a surface *)
(***************************************************************************)
\* the ray is already on triangle j of this surface
OnThisTriangle(the_ray, sample, j) ==
    the_ray.on_element = j /\ the_ray.on_surface = sample.surf_index

BackFacing(normal, d) == RGt(dot(normal, d), Zero)

\* all three vertices are behind the ray position along d
BehindRay(el, e, d) ==
    /\ RLt(dot(VSub(el.a, e), d), Zero)
    /\ RLt(dot(VSub(el.b, e), d), Zero)
    /\ RLt(dot(VSub(el.c, e), d), Zero)

\* the matrix AA and right-hand side v of e + t d = a + beta (b-a) + gamma (c-a)
TriagMatrix(el, d) ==
    [i \in 1..3 |-> <<RSub(el.a[i], el.b[i]), RSub(el.a[i], el.c[i]), d[i]>>]

\* the intersection is inside the triangle and the ray propagates forwards
InsideTriangle(u) ==
    /\ RGe(u[1], Zero)
    /\ RGe(u[2], Zero)
    /\ RLe(RAdd(u[1], u[2]), One)
    /\ RGt(u[3], Zero)

\* the comparison of a squared distance with the smallest found so far
TriagNearer(dist, min_dist) == RLt(dist, min_dist)

\* the solved system of triangle j, or success = 0 when the triangle is skipped
\* before or by the solve
TriagSolve(the_ray, sample, j) ==
    LET el == get_element3D(sample, j)
        e == the_ray.position
        d == the_ray.direction
    IN  IF \/ OnThisTriangle(the_ray, sample, j)
           \/ BackFacing(el.normal, d)
           \/ BehindRay(el, e, d)
        THEN [success |-> 0, u |-> <<Zero, Zero, Zero>>]
        ELSE solve3x3(TriagMatrix(el, d), VSub(el.a, e))

\* the body of the loop with *meets = 1 set ahead of every test
MeetsSetEarly(the_ray, sample, j, c) ==
    LET el == get_element3D(sample, j)
        s == TriagSolve(the_ray, sample, j)
        new_loc == propagate(the_ray.position, the_ray.direction, s.u[3])
        movment == VSub(new_loc, the_ray.position)
        dist == dot(movment, movment)
    IN  IF s.success = 0 \/ ~InsideTriangle(s.u)
        THEN [c EXCEPT !.meets = 1]
        ELSE IF TriagNearer(dist, c.min_dist)
             THEN [c EXCEPT !.meets = 1, !.min_dist = dist, !.tri_hit = j,
                            !.nearest_n = el.normal, !.nearest_inter = new_loc,
                            !.which_surface = sample.surf_index]
             ELSE [c EXCEPT !.meets = 1]

\* the body of the loop for triangle j, acting on the candidate c
TriagIter(the_ray, sample, j, c) ==
    LET el == get_element3D(sample, j)
        e == the_ray.position
        d == the_ray.direction
        s == TriagSolve(the_ray, sample, j)
        new_loc == propagate(e, d, s.u[3])
        movment == VSub(new_loc, e)
        dist == dot(movment, movment)
    IN  IF s.success = 0 \/ ~InsideTriangle(s.u)
        THEN c
        ELSE IF TriagNearer(dist, c.min_dist)
             THEN [c EXCEPT !.meets = 1, !.min_dist = dist, !.tri_hit = j,
                            !.nearest_n = el.normal, !.nearest_inter = new_loc,
                            !.which_surface = sample.surf_index]
             ELSE [c EXCEPT !.meets = 1]

RECURSIVE TriagLoop(_, _, _, _)
TriagLoop(the_ray, sample, j, c) ==
    IF j >= sample.n_faces THEN c
    ELSE TriagLoop(the_ray, sample, j + 1, TriagIter(the_ray, sample, j, c))

scatterTriag(the_ray, sample, c) == TriagLoop(the_ray, sample, 0, c)

(***************************************************************************)
(* scatterSphere                                                           *)
(***************************************************************************)
\* the coefficients of t^2 + beta t + gamma = 0
SphereBeta(e, d, sc) ==
    RMul(R(2), RAdd(RAdd(RMul(d[1], RSub(e[1], sc[1])), RMul(d[2], RSub(e[2], sc[2]))),
                    RMul(d[3], RSub(e[3], sc[3]))))

SphereGamma(e, sc, r) ==
    RAdd(RSub(RNeg(RSq(r)), RMul(R(2), dot(e, sc))), RAdd(dot(e, e), dot(sc, sc)))

SphereDisc(the_ray, the_sphere) ==
    LET beta == SphereBeta(the_ray.position, the_ray.direction, the_sphere.sphere_c)
        gamma == SphereGamma(the_ray.position, the_sphere.sphere_c, the_sphere.sphere_r)
    IN  RSub(RSq(beta), RMul(R(4), gamma))

\* distance = (-beta - sqrt(beta*beta - 4*gamma))/2, the smaller root
SphereDistance(the_ray, the_sphere) ==
    LET beta == SphereBeta(the_ray.position, the_ray.direction, the_sphere.sphere_c)
    IN  RDiv(RSub(RNeg(beta), RSqrt(SphereDisc(the_ray, the_sphere))), R(2))

\* the sphere is the shortest intersection yet found
SphereNearer(distance, min_dist) ==
    RLt(RSq(distance), min_dist) /\ RGt(distance, Zero)

\* normalise(vect): divide by the norm
normalise(v) ==
    LET n == RSqrt(dot(v, v))
    IN  <<RDiv(v[1], n), RDiv(v[2], n), RDiv(v[3], n)>>

scatterSphere(the_ray, the_sphere, c) ==
    LET e == the_ray.position
        d == the_ray.direction
        distance == SphereDistance(the_ray, the_sphere)
        inter == propagate(e, d, distance)
    IN  IF RLt(SphereDisc(the_ray, the_sphere), Zero)
        THEN [c EXCEPT !.meets_sphere = 0]
        ELSE IF SphereNearer(distance, c.min_dist)
             THEN [c EXCEPT
                     !.nearest_n = normalise(
                         [i \in 1..3 |->
                            RDiv(RSub(inter[i], the_sphere.sphere_c[i]),
                                 the_sphere.sphere_r)]),
                     !.nearest_inter = inter,
                     !.min_dist = RSq(distance),
                     !.tri_hit = -1,
                     !.which_surface = the_sphere.surf_index,
                     !.meets_sphere = 1]
             ELSE [c EXCEPT !.meets_sphere = 0]

\* the sphere test made whatever the presence flag says
SphereAlways(ray, sphere, c) == scatterSphere(ray, sphere, c)

\* the sphere takes part in the intersection tests only when it is made
sphereIfMade(ray, sphere, c) ==
    IF sphere.make_sphere = 1 THEN scatterSphere(ray, sphere, c) ELSE c

(***************************************************************************)
(* multiBackWall                                                           *)
(***************************************************************************)
\* alpha = (0 - e[1])/d[1]: the ray parameter of the plane y = 0
WallAlpha(the_ray) ==
    RDiv(RSub(Zero, the_ray.position[2]), the_ray.direction[2])

WallHit(the_ray) == propagate(the_ray.position, the_ray.direction, WallAlpha(the_ray))

\* the ellipse value of aperture i at the wall hit point
ApertureTest(wall_hit, plate) ==
    LET x_disp == RSub(wall_hit[1], plate.aperture_c[1])
        y_disp == RSub(wall_hit[3], plate.aperture_c[2])
    IN  RAdd(RDiv(RSq(x_disp), RMul(Rat(1, 4), RSq(plate.aperture_axes[1]))),
             RDiv(RSq(y_disp), RMul(Rat(1, 4), RSq(plate.aperture_axes[2]))))

InAperture(test) == RLt(test, One)

\* the loop over the apertures from index i: the value of test and of
\* *which_aperture when the loop ends (by break or by i = n_detect)
RECURSIVE ApertureLoop(_, _, _, _, _)
ApertureLoop(wall_hit, wallPlate, i, test, which) ==
    IF i >= wallPlate.n_detect THEN [test |-> test, which_aperture |-> which]
    ELSE LET t == ApertureTest(wall_hit, get_nth_aperture(i, wallPlate))
         IN  IF InAperture(t) THEN [test |-> t, which_aperture |-> i + 1]
             ELSE ApertureLoop(wall_hit, wallPlate, i + 1, t, which)

\* the wall is further than a previous intersection
WallFurther(alpha, min_dist) == RGt(RSq(alpha), min_dist)
\* the wall is the smallest distance so far
WallNearer(alpha, min_dist) == RLt(RSq(alpha), min_dist)

InPlateDisc(wall_hit, wallPlate) ==
    /\ RLe(RAdd(RSq(wall_hit[1]), RSq(wall_hit[3])), RSq(wallPlate.circle_plate_r))
    /\ wallPlate.plate_represent # 0

backNormal == V3(0, -1, 0)

\* the candidate with the wall hit recorded
WallRecord(c, alpha, wall_hit, wallPlate) ==
    [c EXCEPT !.min_dist = RSq(alpha), !.tri_hit = -1, !.nearest_n = backNormal,
              !.nearest_inter = wall_hit, !.which_surface = wallPlate.surf_index]

\* the plate test without the reset of *meets on entry
MeetsNotReset(the_ray, wallPlate, c) ==
    LET alpha == WallAlpha(the_ray)
        wall_hit == WallHit(the_ray)
        ap == ApertureLoop(wall_hit, wallPlate, 0, R(10), 0)
    IN  IF ~RGt(the_ray.direction[2], Zero)
        THEN [c EXCEPT !.which_aperture = 0]
        ELSE IF WallFurther(alpha, c.min_dist)
        THEN [c EXCEPT !.which_aperture = 0]
        ELSE IF InAperture(ap.test) /\ WallNearer(alpha, c.min_dist)
        THEN [WallRecord(c, alpha, wall_hit, wallPlate)
                 EXCEPT !.which_aperture = ap.which_aperture]
        ELSE IF InPlateDisc(wall_hit, wallPlate)
        THEN IF WallNearer(alpha, c.min_dist)
             THEN [WallRecord(c, alpha, wall_hit, wallPlate)
                      EXCEPT !.meets_wall = 1, !.which_aperture = 0]
             ELSE [c EXCEPT !.meets_wall = 1, !.which_aperture = 0]
        ELSE [c EXCEPT !.which_aperture = 0]

\* c carries *meets (as meets_wall) and *which_aperture beside the candidate
multiBackWall(the_ray, wallPlate, c) ==
    LET c0 == [c EXCEPT !.meets_wall = 0]
        alpha == WallAlpha(the_ray)
        wall_hit == WallHit(the_ray)
        ap == ApertureLoop(wall_hit, wallPlate, 0, R(10), 0)
    IN  IF ~RGt(the_ray.direction[2], Zero)
        THEN [c0 EXCEPT !.which_aperture = 0]
        ELSE IF WallFurther(alpha, c0.min_dist)
        THEN [c0 EXCEPT !.which_aperture = 0]
        ELSE IF InAperture(ap.test) /\ WallNearer(alpha, c0.min_dist)
        THEN [WallRecord(c0, alpha, wall_hit, wallPlate)
                 EXCEPT !.which_aperture = ap.which_aperture]
        ELSE IF InPlateDisc(wall_hit, wallPlate)
        THEN IF WallNearer(alpha, c0.min_dist)
             THEN [WallRecord(c0, alpha, wall_hit, wallPlate)
                      EXCEPT !.meets_wall = 1, !.which_aperture = 0]
             ELSE [c0 EXCEPT !.meets_wall = 1, !.which_aperture = 0]
        ELSE [c0 EXCEPT !.which_aperture = 0]

(***************************************************************************)
(* Scenes: the surfaces handed to the tracing                              *)
(***************************************************************************)
\* the surface indices set in mexFunction
sample_index == 0
plate_index == 1
sphere_index == 2

\* a flat square sample in the plane y = -2, facing the plate: two triangles
\* that share the diagonal x = z
SampleFlat ==
    [n_faces |-> 2, surf_index |-> sample_index,
     vertices |-> <<V3(-2, -2, -2), V3(2, -2, -2), V3(2, -2, 2), V3(-2, -2, 2)>>,
     faces |-> <<(<<1, 2, 3>>), (<<1, 3, 4>>)>>,
     normals |-> <<V3(0, 1, 0), V3(0, 1, 0)>>,
     composition |-> <<1, 0>>]

\* a sample with two downward-facing triangles, one in the plane y = -3 and
\* one in the plane of the plate, and an upward-facing one in the plane y = -4
SampleStep ==
    [n_faces |-> 3, surf_index |-> sample_index,
     vertices |-> <<V3(-1, -3, -1), V3(1, -3, -1), V3(0, -3, 2),
                    V3(-2, 0, -1), V3(2, 0, -1), V3(0, 0, 2),
                    V3(-2, -4, -1), V3(2, -4, -1), V3(0, -4, 2)>>,
     faces |-> <<(<<1, 2, 3>>), (<<4, 5, 6>>), (<<7, 8, 9>>)>>,
     normals |-> <<V3(0, -1, 0), V3(0, -1, 0), V3(0, 1, 0)>>,
     composition |-> <<0, 0, 1>>]

\* the flat sample in the plane y = -2 with a triangle standing on it in the
\* plane x = 1, parallel to the axis of the beam: the standing triangle comes
\* first
FlatWithWall ==
    [n_faces |-> 3, surf_index |-> sample_index,
     vertices |-> <<V3(-2, -2, -2), V3(2, -2, -2), V3(2, -2, 2), V3(-2, -2, 2),
                    V3(1, -2, -1), V3(1, -2, 1), V3(1, -1, 0)>>,
     faces |-> <<(<<5, 6, 7>>), (<<1, 2, 3>>), (<<1, 3, 4>>)>>,
     normals |-> <<V3(-1, 0, 0), V3(0, 1, 0), V3(0, 1, 0)>>,
     composition |-> <<1, 1, 1>>]

\* a sphere described by the inputs (centre (0,-1,0), radius 1) and not made
NoSphere ==
    [make_sphere |-> 0, sphere_c |-> V3(0, -1, 0), sphere_r |-> One,
     surf_index |-> sphere_index, composition |-> 0]

Sphere(cy) ==
    [make_sphere |-> 1, sphere_c |-> V3(0, cy, 0), sphere_r |-> One,
     surf_index |-> sphere_index, composition |-> 0]

\* one aperture, plate represented
Plate1 ==
    [n_detect |-> 1, aperture_c |-> <<(<<R(1), R(0)>>)>>,
     aperture_axes |-> <<(<<R(2), R(2)>>)>>,
     circle_plate_r |-> R(2), plate_represent |-> 1, surf_index |-> plate_index]

\* two overlapping apertures, plate not represented
Plate2 ==
    [n_detect |-> 2, aperture_c |-> <<(<<R(0), R(0)>>), (<<R(1), R(0)>>)>>,
     aperture_axes |-> <<(<<R(4), R(2)>>), (<<R(4), R(4)>>)>>,
     circle_plate_r |-> R(2), plate_represent |-> 0, surf_index |-> plate_index]

\* two disjoint apertures, plate represented
Plate3 ==
    [n_detect |-> 2, aperture_c |-> <<(<<R(-1), R(0)>>), (<<R(1), R(0)>>)>>,
     aperture_axes |-> <<(<<R(2), R(2)>>), (<<R(2), R(2)>>)>>,
     circle_plate_r |-> R(2), plate_represent |-> 1, surf_index |-> plate_index]

Scenes ==
    <<[Sample |-> SampleFlat, the_sphere |-> NoSphere, Plate |-> Plate1],
      [Sample |-> SampleStep, the_sphere |-> Sphere(-2), Plate |-> Plate2],
      [Sample |-> FlatWithWall, the_sphere |-> Sphere(-1), Plate |-> Plate3]>>

SceneIds == 1..Len(Scenes)

(***************************************************************************)
(* The state: of the intersection kernel run on its own, of mexFunction,   *)
(* and of rectangularScan.                                                 *)
(***************************************************************************)
VARIABLES
    kray,     \* the ray handed to the tests
    kscene,   \* the index in Scenes of the scene it is traced in
    k,        \* min_dist, nearest_inter, nearest_n, tri_hit, which_surface,
              \* the meets flags and which_aperture
    kpc,      \* the test about to run: "triag", "sphere", "wall", or "done"
    kj        \* the triangle about to be tested

kvars == <<kray, kscene, k, kpc, kj>>

VARIABLES
    mpc,             \* where mexFunction is: "entry", "loop", "trace", "done", "aborted"
    nrhs, nlhs,      \* the numbers of inputs and outputs it is called with
    scene,           \* the scene and source inputs: an index in MexScenes
    nrays,           \* the number of rays
    maxScatters,     \* the maximum number of scattering events per ray
    first_plate,     \* whether the plate takes part in the first intersection test
    my_rng,          \* the state of the random number generator
    i,               \* the loop index
    the_ray,         \* the ray being traced
    rstate,          \* its state: "Initial", "Flight", "Scatter", "Detected",
                     \* "Escaped", "Killed" ("None" outside the loop body)
    hit,             \* the nearest intersection found in the last flight
    cntr_detected,   \* the number of detected rays
    killed,          \* the number of killed rays
    numScattersRay,  \* the histogram, of length maxScatters
    stray,           \* the number of histogram updates that fell outside the array
    calls,           \* the number of calls of mexFunction begun
    prev             \* what the previous call returned (<<>> before any returned)

mvars == <<mpc, nrhs, nlhs, scene, nrays, maxScatters, first_plate, my_rng, i, the_ray,
           rstate, hit, cntr_detected, killed, numScattersRay, stray, calls, prev>>

minputs == <<nrhs, nlhs, scene, nrays, maxScatters, first_plate>>

VARIABLES
    spc,             \* where rectangularScan is: "setup", "parfor", "assemble", "done"
    scan,            \* its inputs: xrange, zrange, raster_movement, maxScatter
    surf,            \* the surface objects alive: object |-> displacement from the
                     \* sample's initial pose (object 0 is sample_surface)
    task,            \* the state of each pixel task of the parfor loop
    counters,        \* counters(:, i_), by linear index
    num_killed,      \* num_killed(i_)
    effuse_counters, \* effuse_counters(i_)
    writers,         \* the writes to the output arrays in the order they
                     \* happened: <<task, column>>
    cancel           \* whether the caller has asked for the scan to be cancelled

svars == <<spc, scan, surf, task, counters, num_killed, effuse_counters, writers,
           cancel>>

vars == <<kvars, mvars, svars>>

(***************************************************************************)
(* The intersection kernel, one test at a time: the sample triangles in    *)
(* index order, then the sphere, then the plate.                           *)
(***************************************************************************)
\* bounds of the rays handed to the kernel
MaxCoord == 2
Depth == 4

\* unit directions: the axes, and obliques with rational components
AxisDirs == {V3(1, 0, 0), V3(-1, 0, 0), V3(0, 1, 0), V3(0, -1, 0), V3(0, 0, 1)}
ObliqueDirs == {V5(3, 4, 0), V5(-3, 4, 0), V5(3, -4, 0), V5(0, 4, 3), V5(4, -3, 0)}
Dirs == AxisDirs \cup ObliqueDirs

Positions ==
    {V3(x, y, z) : x \in -MaxCoord..MaxCoord, y \in -Depth..1, z \in 0..1}

\* (on_surface, on_element): on nothing, on a sample triangle, on the plate,
\* on the sphere
OnPairs == {<<-1, -1>>, <<sample_index, 0>>, <<sample_index, 1>>,
            <<plate_index, -1>>, <<plate_index, 0>>, <<sphere_index, -1>>}

MakeRay(pos, dir, on, n) ==
    [position |-> pos, direction |-> dir, on_surface |-> on[1],
     on_element |-> on[2], nScatters |-> n]

IsSquare(n) == \E q \in 0..n : q * q = n

\* the sphere test of this ray takes the square root of an exact square (or
\* takes none): the rays of the model are those whose roots are rational
SphereExact(ray, sphere) ==
    LET disc == SphereDisc(ray, sphere)
    IN  RLt(disc, Zero) \/ (IsSquare(disc[1]) /\ IsSquare(disc[2]))

\* the candidate before any test: min_dist above every distance, on nothing
NoCandidate ==
    [min_dist |-> Inf, nearest_inter |-> V3(0, 0, 0), nearest_n |-> V3(0, 0, 0),
     tri_hit |-> -1, which_surface |-> -1,
     meets |-> 0, meets_sphere |-> 0, meets_wall |-> 0, which_aperture |-> 0]

NoRay == MakeRay(V3(0, 0, 0), V3(0, 0, 0), <<-1, -1>>, 0)

\* the values of the variables of a part of the program that is not running
KernelIdle ==
    kray = NoRay /\ kscene = 1 /\ k = NoCandidate /\ kpc = "off" /\ kj = 0

MexIdle ==
    /\ mpc = "off" /\ nrhs = 18 /\ nlhs = 3 /\ scene = 1 /\ nrays = 0
    /\ maxScatters = 1 /\ first_plate = 1 /\ my_rng = 0 /\ i = 0
    /\ the_ray = NoRay /\ rstate = "None" /\ hit = NoCandidate
    /\ cntr_detected = 0 /\ killed = 0 /\ numScattersRay = <<>> /\ stray = 0
    /\ calls = 0 /\ prev = <<>>

ScanIdle ==
    /\ spc = "off" /\ scan = <<>> /\ surf = <<>> /\ task = <<>> /\ counters = <<>>
    /\ num_killed = <<>> /\ effuse_counters = <<>> /\ writers = <<>>
    /\ cancel = FALSE

KernelInit ==
    /\ kscene \in SceneIds
    /\ kray \in {MakeRay(p, d, on, 0) : p \in Positions, d \in Dirs, on \in OnPairs}
    /\ SphereExact(kray, Scenes[kscene].the_sphere)
    /\ k = NoCandidate
    /\ kpc = "triag"
    /\ kj = 0
    /\ MexIdle
    /\ ScanIdle

\* one iteration of the loop of scatterTriag over the sample
KTriag ==
    /\ kpc = "triag"
    /\ kj < Scenes[kscene].Sample.n_faces
    /\ k' = TriagIter(kray, Scenes[kscene].Sample, kj, k)
    /\ kj' = kj + 1
    /\ UNCHANGED <<kray, kscene, kpc>>
    /\ UNCHANGED <<mvars, svars>>

\* the loop of scatterTriag ends
KTriagEnd ==
    /\ kpc = "triag"
    /\ kj >= Scenes[kscene].Sample.n_faces
    /\ kpc' = "sphere"
    /\ UNCHANGED <<kray, kscene, k, kj>>
    /\ UNCHANGED <<mvars, svars>>

\* scatterSphere, called when the sphere is present
KSphere ==
    /\ kpc = "sphere"
    /\ k' = sphereIfMade(kray, Scenes[kscene].the_sphere, k)
    /\ kpc' = "wall"
    /\ UNCHANGED <<kray, kscene, kj>>
    /\ UNCHANGED <<mvars, svars>>

\* multiBackWall
KWall ==
    /\ kpc = "wall"
    /\ k' = multiBackWall(kray, Scenes[kscene].Plate, k)
    /\ kpc' = "done"
    /\ UNCHANGED <<kray, kscene, kj>>
    /\ UNCHANGED <<mvars, svars>>

KernelNext == KTriag \/ KTriagEnd \/ KSphere \/ KWall

SpecKernel == KernelInit /\ [][KernelNext]_vars

(***************************************************************************)
(* Properties of the intersection kernel                                   *)
(***************************************************************************)
\* the candidate proper: what a test replaces when it finds a nearer hit
Core(c) == <<c.min_dist, c.nearest_inter, c.nearest_n, c.tri_hit, c.which_surface>>

\* the ray parameter of the recorded hit: d is a unit vector, so it is the
\* projection of (nearest_inter - e) on d
HitParameter == dot(VSub(k.nearest_inter, kray.position), kray.direction)

\* C4: every hit recorded by a test lies strictly ahead of the ray origin
\* along its direction (t > 0), for every ray position and direction.
C4_RecordedHitsAhead ==
    k.which_surface # -1 => RGt(HitParameter, Zero)

\* C5: a test replaces the current candidate only by one whose squared
\* distance is strictly smaller, so at equal distance the candidate of the
\* earlier test (or of the lower triangle index) is kept; and when the plate
\* test keeps the current candidate, no aperture is reported.
C5_StrictlyNearerWins ==
    [][/\ Core(k') # Core(k) => RLt(k'.min_dist, k.min_dist)
       /\ (kpc = "wall" /\ Core(k') = Core(k)) => k'.which_aperture = 0]_vars

\* the wall hit of the ray lies in some aperture of the plate of its scene
WallHitInSomeAperture ==
    \E a \in 0..(Scenes[kscene].Plate.n_detect - 1) :
        RLt(ApertureTest(WallHit(kray), get_nth_aperture(a, Scenes[kscene].Plate)), One)

\* C5 witness: the plate test met an aperture at exactly the distance of the
\* sample triangle found before it, and the triangle was kept
C5_Witness ==
    /\ kpc = "done"
    /\ RGt(kray.direction[2], Zero)
    /\ k.which_surface = sample_index
    /\ RSq(WallAlpha(kray)) = k.min_dist
    /\ WallHitInSomeAperture
    /\ k.which_aperture = 0

\* the apertures (0-based) whose ellipse contains the wall hit point
AperturesContaining(ray, wallPlate) ==
    {a \in 0..(wallPlate.n_detect - 1) :
        RLt(ApertureTest(WallHit(ray), get_nth_aperture(a, wallPlate)), One)}

SetMin(S) == CHOOSE x \in S : \A y \in S : x <= y

\* the aperture index the plate test is to report, given min_dist on entry
ExpectedAperture(ray, wallPlate, min_dist) ==
    IF /\ RGt(ray.direction[2], Zero)
       /\ RLt(RSq(WallAlpha(ray)), min_dist)
       /\ AperturesContaining(ray, wallPlate) # {}
    THEN SetMin(AperturesContaining(ray, wallPlate)) + 1
    ELSE 0

\* C10: multiBackWall reports i+1 for the lowest aperture index i whose ellipse
\* contains the wall hit point when the wall is strictly nearer than the
\* current candidate, and 0 in every other case.
C10_LowestContainingAperture ==
    [][kpc = "wall" =>
          /\ k'.which_aperture = ExpectedAperture(kray, Scenes[kscene].Plate, k.min_dist)
          /\ k'.which_aperture \in 0..Scenes[kscene].Plate.n_detect]_vars

\* C10 witness: the hit point lies in both apertures and the first is reported
C10_Witness ==
    /\ kpc = "done"
    /\ k.which_aperture = 1
    /\ RGt(kray.direction[2], Zero)
    /\ RLt(kray.position[2], Zero)
    /\ AperturesContaining(kray, Scenes[kscene].Plate) = {0, 1}

\* the wall hit point of the ray lies within the disc of the plate
WithinDisc(ray, wallPlate) ==
    RLe(RAdd(RSq(WallHit(ray)[1]), RSq(WallHit(ray)[3])), RSq(wallPlate.circle_plate_r))

\* C11: for a ray travelling towards the plate (d_y > 0) whose wall hit point
\* lies in no aperture: when plate_represent is true, the hit point lies within
\* the plate disc and the wall is strictly nearer than the current candidate,
\* a plate hit is recorded (plate id, triangle index -1, normal (0,-1,0), point
\* in the plane y = 0); when plate_represent is false or the hit point lies
\* outside the disc, nothing is recorded and the candidate is left as it was.
C11_PlateHitRecorded ==
    [][(/\ kpc = "wall"
        /\ RGt(kray.direction[2], Zero)
        /\ AperturesContaining(kray, Scenes[kscene].Plate) = {})
       => (/\ (/\ Scenes[kscene].Plate.plate_represent # 0
               /\ WithinDisc(kray, Scenes[kscene].Plate)
               /\ RLt(RSq(WallAlpha(kray)), k.min_dist))
              => (/\ Core(k') = <<RSq(WallAlpha(kray)), WallHit(kray), V3(0, -1, 0),
                                 -1, plate_index>>
                  /\ k'.nearest_inter[2] = Zero
                  /\ k'.meets_wall = 1
                  /\ k'.which_aperture = 0)
           /\ (\/ Scenes[kscene].Plate.plate_represent = 0
               \/ ~WithinDisc(kray, Scenes[kscene].Plate))
              => (/\ Core(k') = Core(k)
                  /\ k'.meets_wall = 0
                  /\ k'.which_aperture = 0))]_vars

\* C11 witness: a ray from below the plate met it within the disc and outside
\* the apertures, and the plate was recorded
C11_Witness ==
    /\ kpc = "done"
    /\ RGt(kray.direction[2], Zero)
    /\ RLt(kray.position[2], Zero)
    /\ AperturesContaining(kray, Scenes[kscene].Plate) = {}
    /\ Scenes[kscene].Plate.plate_represent = 1
    /\ k.which_surface = plate_index
    /\ k.tri_hit = -1
    /\ k.nearest_n = V3(0, -1, 0)

\* the two roots of t^2 + beta*t + gamma = 0 for the ray and the sphere
SphereRoots(ray, sphere) ==
    {RDiv(RSub(RNeg(SphereBeta(ray.position, ray.direction, sphere.sphere_c)), RSqrt(SphereDisc(ray, sphere))), R(2)),
     RDiv(RAdd(RNeg(SphereBeta(ray.position, ray.direction, sphere.sphere_c)), RSqrt(SphereDisc(ray, sphere))), R(2))}

\* C12: scatterSphere reports a miss when the discriminant is negative, and
\* for every ray origin, outside or inside the sphere, whenever a positive root
\* exists with squared distance below the current minimum the sphere becomes
\* the candidate.  (Read after the sphere test and before the plate test: a
\* sphere that was not recorded has left min_dist at its value on entry.)
C12_PositiveRootTaken ==
    (kpc = "wall" /\ Scenes[kscene].the_sphere.make_sphere = 1)
    => IF RLt(SphereDisc(kray, Scenes[kscene].the_sphere), Zero)
       THEN k.meets_sphere = 0 /\ k.which_surface # sphere_index
       ELSE (\E root \in SphereRoots(kray, Scenes[kscene].the_sphere) :
                RGt(root, Zero) /\ RLt(RSq(root), k.min_dist))
            => (k.which_surface = sphere_index /\ k.meets_sphere = 1)

FreeRay(ray) == [ray EXCEPT !.on_surface = -1, !.on_element = -1]

\* the ray is on triangle j of the sample of its scene
OnSampleTriangle(j) ==
    kray.on_surface = Scenes[kscene].Sample.surf_index /\ kray.on_element = j

\* C14: for a ray with on_surface = s and on_element = j the triangle test on
\* the surface whose id is s never reports triangle j, whatever the geometry;
\* triangle j of a surface with another id, and every other triangle of s, is
\* tested as for a ray on no surface.  The surface ids of sample, plate and
\* sphere are pairwise distinct.
C14_OwnFacetSkipped ==
    [][/\ (kpc = "triag" /\ kj < Scenes[kscene].Sample.n_faces)
          => IF OnSampleTriangle(kj)
             THEN k' = k
             ELSE k' = TriagIter(FreeRay(kray), Scenes[kscene].Sample, kj, k)
       /\ OnSampleTriangle(k'.tri_hit) => k'.which_surface # Scenes[kscene].Sample.surf_index
       /\ Cardinality({sample_index, plate_index, sphere_index}) = 3
       /\ Cardinality({Scenes[kscene].Sample.surf_index, Scenes[kscene].Plate.surf_index,
                       Scenes[kscene].the_sphere.surf_index}) = 3]_vars

\* C14 witness: a ray marked as on a sample triangle and aimed at that very
\* triangle went through the tests, and the triangle was not reported
C14_Witness ==
    /\ kpc = "done"
    /\ kray.on_surface = Scenes[kscene].Sample.surf_index
    /\ kray.on_element >= 0
    /\ scatterTriag(FreeRay(kray), Scenes[kscene].Sample, NoCandidate).tri_hit
           = kray.on_element
    /\ ~(k.which_surface = Scenes[kscene].Sample.surf_index /\ k.tri_hit = kray.on_element)

\* the system e + t d = a + beta (b-a) + gamma (c-a) of triangle j of the
\* sample of the scene, solved for the ray with no triangle left out
SolvedFor(j) ==
    solve3x3(TriagMatrix(get_element3D(Scenes[kscene].Sample, j), kray.direction),
             VSub(get_element3D(Scenes[kscene].Sample, j).a, kray.position))

\* triangle j is a hit of the ray by the four conditions of C19
IsHit(j) ==
    LET s == SolvedFor(j)
    IN  /\ ~OnSampleTriangle(j)
        /\ RLe(dot(get_element3D(Scenes[kscene].Sample, j).normal, kray.direction),
               Zero)
        /\ s.success = 1
        /\ RGe(s.u[1], Zero)
        /\ RGe(s.u[2], Zero)
        /\ RLe(RAdd(s.u[1], s.u[2]), One)
        /\ RGt(s.u[3], Zero)

\* the squared distance from the ray position to its meeting with the plane
\* of triangle j
HitDist(j) == RMul(RSq(SolvedFor(j).u[3]), dot(kray.direction, kray.direction))

\* the hits of the ray among the triangles of the sample
Hits == {j \in 0..(Scenes[kscene].Sample.n_faces - 1) : IsHit(j)}

\* the hits at the smallest squared distance
NearestHits == {j \in Hits : \A h \in Hits : RLe(HitDist(j), HitDist(h))}

\* C19: scatterTriag takes triangle j for a hit exactly when it is not the own
\* facet of the ray, it is not back-facing (d.normal <= 0), its system is not
\* singular and the solution has beta >= 0, gamma >= 0, beta + gamma <= 1 and
\* t > 0, hits on an edge or a vertex included; a hit sets meets and replaces
\* the candidate when it is strictly nearer, anything else leaves all as it
\* was; when the loop is over min_dist is the smallest squared distance of the
\* hits (its entry value when there is none) and tri_hit, normal and point
\* are those of the lowest-index triangle at that distance.
C19_TriangleHitRule ==
    [][/\ (kpc = "triag" /\ kj < Scenes[kscene].Sample.n_faces)
          => IF IsHit(kj)
             THEN /\ k'.meets = 1
                  /\ IF RLt(HitDist(kj), k.min_dist)
                     THEN Core(k') =
                            <<HitDist(kj),
                              propagate(kray.position, kray.direction, SolvedFor(kj).u[3]),
                              get_element3D(Scenes[kscene].Sample, kj).normal, kj,
                              Scenes[kscene].Sample.surf_index>>
                     ELSE Core(k') = Core(k)
             ELSE k' = k
       /\ (kpc = "triag" /\ kpc' = "sphere")
          => IF Hits = {}
             THEN k' = NoCandidate
             ELSE LET first == SetMin(NearestHits)
                  IN  /\ k'.meets = 1
                      /\ k'.tri_hit = first
                      /\ k'.min_dist = HitDist(first)
                      /\ k'.nearest_n =
                            get_element3D(Scenes[kscene].Sample, first).normal
                      /\ k'.nearest_inter =
                            propagate(kray.position, kray.direction,
                                      SolvedFor(first).u[3])
                      /\ k'.which_surface = Scenes[kscene].Sample.surf_index]_vars

\* C25: the meets flag returned by multiBackWall does not depend on its value
\* on entry; it is 1 on return only when the ray strikes the plate disc with
\* plate_represent true and no detection is reported, and it is 0 whenever an
\* aperture is reported.  The meets flag of scatterTriag is set to 1 by every
\* triangle that passes the hit test, nearer than the candidate or not, and
\* is never cleared: a flag that is 1 on entry stays 1.
C25_MeetsFlags ==
    [][/\ (kpc = "wall")
          => (/\ k' = multiBackWall(kray, Scenes[kscene].Plate,
                                    [k EXCEPT !.meets_wall = 1 - k.meets_wall])
              /\ k'.meets_wall \in {0, 1}
              /\ (k'.meets_wall = 1)
                 => (/\ RGt(kray.direction[2], Zero)
                     /\ WithinDisc(kray, Scenes[kscene].Plate)
                     /\ Scenes[kscene].Plate.plate_represent # 0
                     /\ k'.which_aperture = 0)
              /\ (k'.which_aperture # 0) => k'.meets_wall = 0)
       /\ (kpc = "triag" /\ kj < Scenes[kscene].Sample.n_faces)
          => (/\ k'.meets = IF IsHit(kj) THEN 1 ELSE k.meets
              /\ TriagIter(kray, Scenes[kscene].Sample, kj,
                           [k EXCEPT !.meets = 1]).meets = 1)]_vars

\* C25 witness: the tests are over for a ray that struck the disc of a
\* represented plate outside its apertures: the flag of the plate is 1, no
\* aperture is reported, and the flag of the triangles, which none set, is 0
C25_Witness ==
    /\ kpc = "done"
    /\ k.meets_wall = 1
    /\ k.which_aperture = 0
    /\ k.which_surface = plate_index
    /\ AperturesContaining(kray, Scenes[kscene].Plate) = {}
    /\ Hits = {}
    /\ k.meets = 0

\* the body of the loop of scatterTriag for triangle j of the sample of the
\* scene with the culling of the triangles behind the ray left out
UnculledIter(j, c) ==
    LET el == get_element3D(Scenes[kscene].Sample, j)
        s == IF OnSampleTriangle(j) \/ RGt(dot(el.normal, kray.direction), Zero)
             THEN [success |-> 0, u |-> <<Zero, Zero, Zero>>]
             ELSE SolvedFor(j)
        new_loc == propagate(kray.position, kray.direction, s.u[3])
        dist == dot(VSub(new_loc, kray.position), VSub(new_loc, kray.position))
    IN  IF s.success = 0
           \/ ~(RGe(s.u[1], Zero) /\ RGe(s.u[2], Zero)
                   /\ RLe(RAdd(s.u[1], s.u[2]), One) /\ RGt(s.u[3], Zero))
        THEN c
        ELSE IF RLt(dist, c.min_dist)
             THEN [c EXCEPT !.meets = 1, !.min_dist = dist, !.tri_hit = j,
                            !.nearest_n = el.normal, !.nearest_inter = new_loc,
                            !.which_surface = Scenes[kscene].Sample.surf_index]
             ELSE [c EXCEPT !.meets = 1]

RECURSIVE UnculledLoop(_, _)
UnculledLoop(j, c) ==
    IF j >= Scenes[kscene].Sample.n_faces THEN c
    ELSE UnculledLoop(j + 1, UnculledIter(j, c))

\* C24: the culling of the triangles behind the ray never changes the
\* outcome: every iteration of the loop of scatterTriag leaves min_dist, the
\* point, the normal, tri_hit, which_surface and the meets flag as the same
\* iteration without the culling does, and so does the whole loop.
C24_CullingChangesNothing ==
    [][/\ (kpc = "triag" /\ kj < Scenes[kscene].Sample.n_faces)
          => k' = UnculledIter(kj, k)
       /\ (kpc = "triag" /\ kpc' = "sphere")
          => k' = UnculledLoop(0, NoCandidate)]_vars

\* C24 witness: the loop is over for a ray with a triangle behind it, facing
\* it, whose plane the line of the ray crosses inside the triangle at t < 0:
\* the culling left it out and nothing but t > 0 would have
C24_Witness ==
    /\ kpc = "sphere"
    /\ \E j \in 0..(Scenes[kscene].Sample.n_faces - 1) :
          /\ ~OnSampleTriangle(j)
          /\ BehindRay(get_element3D(Scenes[kscene].Sample, j), kray.position,
                       kray.direction)
          /\ RLt(dot(get_element3D(Scenes[kscene].Sample, j).normal, kray.direction),
                 Zero)
          /\ SolvedFor(j).success = 1
          /\ RGe(SolvedFor(j).u[1], Zero) /\ RGe(SolvedFor(j).u[2], Zero)
          /\ RLe(RAdd(SolvedFor(j).u[1], SolvedFor(j).u[2]), One)
          /\ RLt(SolvedFor(j).u[3], Zero)
          /\ k.tri_hit # j

\* the system of triangle j is singular for the ray: its determinant is zero,
\* the ray being parallel to the plane of the triangle
Singular(j) ==
    det3(TriagMatrix(get_element3D(Scenes[kscene].Sample, j), kray.direction)) = Zero

\* C20: a triangle whose system is singular (the ray is parallel to it) is
\* skipped: it is never reported as the hit, its iteration leaves min_dist,
\* the point, the normal, tri_hit, which_surface and the meets flag as they
\* were, and the loop goes on with the next triangle.
C20_SingularSkipped ==
    [][/\ (kpc = "triag" /\ kj < Scenes[kscene].Sample.n_faces /\ Singular(kj))
          => (k' = k /\ kj' = kj + 1 /\ kpc' = "triag")
       /\ (k'.which_surface = Scenes[kscene].Sample.surf_index)
          => ~Singular(k'.tri_hit)]_vars

\* C20 witness: the loop is over for a ray in the plane of the first triangle,
\* whose system reached the solve and was singular, and a later triangle is
\* the candidate
C20_Witness ==
    /\ kpc = "sphere"
    /\ Singular(0)
    /\ ~OnSampleTriangle(0)
    /\ ~BehindRay(get_element3D(Scenes[kscene].Sample, 0), kray.position,
                  kray.direction)
    /\ SolvedFor(0).success = 0
    /\ k.meets = 1
    /\ k.tri_hit > 0
    /\ k.which_surface = Scenes[kscene].Sample.surf_index

\* C19 witness: the loop is over for a ray that met the edge shared by two
\* triangles: both are hits at the same distance and the first is recorded
C19_Witness ==
    /\ kpc = "sphere"
    /\ NearestHits = {0, 1}
    /\ RLe(RAdd(SolvedFor(1).u[1], SolvedFor(1).u[2]), One)
    /\ SolvedFor(0).u[2] = Zero \/ SolvedFor(0).u[1] = Zero
           \/ RAdd(SolvedFor(0).u[1], SolvedFor(0).u[2]) = One
    /\ k.tri_hit = 0
    /\ k.meets = 1

\* the plate test of the ray has no strictly nearer wall hit to find: the ray
\* does not travel towards the plate, or the wall is not nearer than the
\* candidate, or the wall hit point lies outside every aperture and either
\* outside the plate disc or on a plate that is not represented
NoNearerWallHit ==
    \/ RLe(kray.direction[2], Zero)
    \/ ~RLt(RSq(WallAlpha(kray)), k.min_dist)
    \/ /\ AperturesContaining(kray, Scenes[kscene].Plate) = {}
       /\ \/ ~WithinDisc(kray, Scenes[kscene].Plate)
          \/ Scenes[kscene].Plate.plate_represent = 0

\* C23: whenever multiBackWall finds no strictly nearer wall hit it leaves
\* min_dist, nearest_inter, nearest_n, tri_hit and which_surface exactly as
\* they were on entry and reports aperture index 0.
C23_WallLeavesCandidate ==
    [][(kpc = "wall" /\ NoNearerWallHit)
       => (/\ k'.min_dist = k.min_dist
           /\ k'.nearest_inter = k.nearest_inter
           /\ k'.nearest_n = k.nearest_n
           /\ k'.tri_hit = k.tri_hit
           /\ k'.which_surface = k.which_surface
           /\ k'.which_aperture = 0)]_vars

\* C23 witness: the plate test is over for a ray aimed at an aperture that a
\* sample triangle stopped first: the triangle is still the candidate
C23_Witness ==
    /\ kpc = "done"
    /\ RGt(kray.direction[2], Zero)
    /\ AperturesContaining(kray, Scenes[kscene].Plate) # {}
    /\ k.which_surface = sample_index
    /\ k.tri_hit >= 0
    /\ RLt(k.min_dist, RSq(WallAlpha(kray)))
    /\ k.which_aperture = 0

\* the ray starts exactly on the surface of the sphere
OnSphereSurface(ray, sphere) ==
    dot(VSub(ray.position, sphere.sphere_c), VSub(ray.position, sphere.sphere_c))
        = RSq(sphere.sphere_r)

\* its direction points away from the sphere, or is tangent to it
PointsAway(ray, sphere) ==
    RGe(dot(ray.direction, VSub(ray.position, sphere.sphere_c)), Zero)

\* C21: a ray whose origin lies exactly on the surface of the sphere and whose
\* direction points away from the sphere or is tangent to it (d.(e-c) >= 0) is
\* never reported as hitting the sphere: the sphere test leaves the candidate
\* as it was and reports no meeting.
C21_NoRehitOfSphere ==
    [][(/\ kpc = "sphere"
        /\ Scenes[kscene].the_sphere.make_sphere = 1
        /\ OnSphereSurface(kray, Scenes[kscene].the_sphere)
        /\ PointsAway(kray, Scenes[kscene].the_sphere))
       => (/\ k'.meets_sphere = 0
           /\ Core(k') = Core(k)
           /\ k'.which_surface # sphere_index)]_vars

\* C21 witness: the sphere test is over for a ray marked as on the sphere that
\* left its surface along a tangent, and the sphere was not reported
C21_Witness ==
    /\ kpc = "wall"
    /\ Scenes[kscene].the_sphere.make_sphere = 1
    /\ kray.on_surface = sphere_index
    /\ OnSphereSurface(kray, Scenes[kscene].the_sphere)
    /\ dot(kray.direction, VSub(kray.position, Scenes[kscene].the_sphere.sphere_c)) = Zero
    /\ k.meets_sphere = 0
    /\ k.which_surface # sphere_index

(***************************************************************************)
(* The ray loop of mexFunction (tracingSimpleGenMex.c) and what it calls:  *)
(* the random number generator, the source, the propagation of one ray.    *)
(***************************************************************************)
\* bounds of the inputs of mexFunction
MaxRays == 2
MaxScatter == 3

\* the states of the generator: a full-period congruential generator
RngStates == 0..15
RngNext(s) == (5 * s + 3) % Cardinality(RngStates)
\* a uniform draw among n alternatives, 1..n, from the generator state
RngPick(s, n) == ((s * n) \div Cardinality(RngStates)) + 1

\* a flat square sample in the plane y = depth with the given materials
Flat(depth, comp) ==
    [SampleFlat EXCEPT
        !.vertices = <<V3(-2, depth, -2), V3(2, depth, -2), V3(2, depth, 2),
                       V3(-2, depth, 2)>>,
        !.composition = comp]

\* the inputs of mexFunction that describe the scene and the source: the pinhole
\* lies in the plane of the plate and the beam points at the sample (d_y < 0)
MexScenes ==
    <<[Sample |-> Flat(-2, <<1, 0>>), the_sphere |-> NoSphere, Plate |-> Plate1,
       source_pos |-> <<V3(0, 0, 0), V3(-1, 0, 0)>>,
       source_dir |-> <<V3(0, -1, 0), V5(3, -4, 0), V5(4, -3, 0)>>],
      [Sample |-> Flat(-4, <<1, 1>>), the_sphere |-> Sphere(-3), Plate |-> Plate2,
       source_pos |-> <<V3(0, 0, 0), V3(2, 0, 0)>>,
       source_dir |-> <<V3(0, -1, 0)>>],
      [Sample |-> Flat(-2, <<1, 1>>), the_sphere |-> NoSphere, Plate |-> Plate3,
       source_pos |-> <<V3(0, 0, 0)>>,
       source_dir |-> <<V3(0, -1, 0), V5(-3, -4, 0)>>],
      [Sample |-> FlatWithWall, the_sphere |-> NoSphere, Plate |-> Plate2,
       source_pos |-> <<V3(0, 0, 0)>>,
       source_dir |-> <<V3(0, -1, 0)>>]>>

MexSceneIds == 1..Len(MexScenes)

\* setupGSL(): the generator seeded; it is handed nothing by mexFunction, so the
\* seed is whatever its environment gives
setupGSL == RngStates

\* create_ray_source: a position on the pinhole and a direction about the mean
\* direction of the beam, one draw each
create_ray_source(sc, rng) ==
    MakeRay(sc.source_pos[RngPick(rng, Len(sc.source_pos))],
            sc.source_dir[RngPick(RngNext(rng), Len(sc.source_dir))],
            <<-1, -1>>, 0)

\* the directions a diffuse scattering event draws from
ScatterDirs ==
    <<V3(0, 1, 0), V3(0, -1, 0), V5(3, 4, 0), V5(-3, 4, 0), V5(3, -4, 0),
      V5(-4, -3, 0), V5(0, 4, 3)>>

Outgoing(n) == SelectSeq(ScatterDirs, LAMBDA dd : RGt(dot(dd, n), Zero))

\* reflect(d, n) = d - 2 (d.n) n
reflect(d, n) == propagate(d, n, RMul(R(-2), dot(d, n)))

\* the scattering kernel: material 0 is specular, any other draws an outgoing
\* direction
new_direction(d, n, material, rng) ==
    IF material = 0 THEN reflect(d, n)
    ELSE Outgoing(n)[RngPick(rng, Len(Outgoing(n)))]

Material(sc, h) ==
    IF h.which_surface = sample_index THEN sc.Sample.composition[h.tri_hit + 1]
    ELSE IF h.which_surface = sphere_index THEN sc.the_sphere.composition
    ELSE 1

\* the nearest intersection of the ray: the sample, the sphere when it is
\* made (sphereIfMade), the plate unless it is left out of this (first) test
plateIfTested(ray, wallPlate, c, with_plate) ==
    IF with_plate THEN multiBackWall(ray, wallPlate, c) ELSE c

scatterSimpleMulti(ray, sc, with_plate) ==
    plateIfTested(ray, sc.Plate,
                  sphereIfMade(ray, sc.the_sphere,
                               scatterTriag(ray, sc.Sample, NoCandidate)),
                  with_plate)

Zeros(n) == [j \in 1..n |-> 0]

RECURSIVE SumSeq(_)
SumSeq(q) == IF q = <<>> THEN 0 ELSE Head(q) + SumSeq(Tail(q))

\* mexFunction is called: nothing is read or set up yet
MexInit ==
    /\ mpc = "entry"
    /\ nrhs \in {17, 18}
    /\ nlhs \in {3, 5}
    /\ scene \in MexSceneIds
    /\ nrays \in 0..MaxRays
    /\ maxScatters \in 1..MaxScatter
    /\ first_plate \in {0, 1}
    /\ my_rng = 0 /\ i = 0 /\ the_ray = NoRay /\ rstate = "None" /\ hit = NoCandidate
    /\ cntr_detected = 0 /\ killed = 0 /\ numScattersRay = <<>> /\ stray = 0
    /\ calls = 1 /\ prev = <<>>

\* the check of the numbers of inputs and outputs
RightNumberOfArguments(n_rhs, n_lhs) == n_rhs = 18 /\ n_lhs = 3

\* the check, then the inputs are read, the counters zeroed, the generator set
\* up and the histogram created
MexEntry ==
    /\ mpc = "entry"
    /\ IF ~RightNumberOfArguments(nrhs, nlhs)
       THEN /\ mpc' = "aborted"
            /\ UNCHANGED <<my_rng, cntr_detected, killed, numScattersRay, i>>
       ELSE /\ mpc' = "loop"
            /\ cntr_detected' = 0
            /\ killed' = 0
            /\ my_rng' \in setupGSL
            /\ numScattersRay' = Zeros(maxScatters)
            /\ i' = 0
    /\ UNCHANGED <<minputs, the_ray, rstate, hit, stray, calls, prev>>
    /\ UNCHANGED <<kvars, svars>>

\* the condition of the loop over the rays
LoopGuard(idx, n) == idx < n

\* the head of the loop body: the ray is created at the source
MexCreateRay ==
    /\ mpc = "loop"
    /\ LoopGuard(i, nrays)
    /\ the_ray' = create_ray_source(MexScenes[scene], my_rng)
    /\ my_rng' = RngNext(RngNext(my_rng))
    /\ rstate' = "Initial"
    /\ mpc' = "trace"
    /\ UNCHANGED <<minputs, i, hit, cntr_detected, killed, numScattersRay, stray,
                   calls, prev>>
    /\ UNCHANGED <<kvars, svars>>

\* trace_ray_simple, a flight: the nearest intersection decides between
\* Escaped, Detected (counted in cntr_detected) and Scatter
RayFlight ==
    /\ mpc = "trace"
    /\ rstate \in {"Initial", "Flight"}
    /\ hit' = scatterSimpleMulti(the_ray, MexScenes[scene],
                                  ~(rstate = "Initial" /\ first_plate = 0))
    /\ rstate' = IF hit'.which_aperture # 0 THEN "Detected"
                 ELSE IF hit'.which_surface = -1 THEN "Escaped"
                 ELSE "Scatter"
    /\ cntr_detected' = IF hit'.which_aperture # 0 THEN cntr_detected + 1
                        ELSE cntr_detected
    /\ UNCHANGED <<minputs, mpc, my_rng, i, the_ray, killed, numScattersRay, stray,
                   calls, prev>>
    /\ UNCHANGED <<kvars, svars>>

\* trace_ray_simple, a scattering event: the ray moves to the hit, is on the
\* element hit, has scattered once more and leaves in a new direction; at
\* maxScatters events it is Killed (counted in killed)
RayScatter ==
    /\ mpc = "trace"
    /\ rstate = "Scatter"
    /\ LET m == Material(MexScenes[scene], hit)
       IN  /\ the_ray' = [position |-> hit.nearest_inter,
                          direction |-> new_direction(the_ray.direction, hit.nearest_n,
                                                      m, my_rng),
                          on_surface |-> hit.which_surface,
                          on_element |-> hit.tri_hit,
                          nScatters |-> the_ray.nScatters + 1]
           /\ my_rng' = IF m = 0 THEN my_rng ELSE RngNext(my_rng)
    /\ IF the_ray.nScatters + 1 >= maxScatters
       THEN rstate' = "Killed" /\ killed' = killed + 1
       ELSE rstate' = "Flight" /\ killed' = killed
    /\ UNCHANGED <<minputs, mpc, i, hit, cntr_detected, numScattersRay, stray,
                   calls, prev>>
    /\ UNCHANGED <<kvars, svars>>

Terminal == {"Detected", "Escaped", "Killed"}

\* what trace_ray_simple returns
Detected(state) == state = "Detected"

\* the index of the histogram entry of a ray detected after n events
HistIndex(n) == n - 1

\* the end of the loop body: the histogram takes the ray if it was detected
\* (numScattersRay[the_ray.nScatters - 1]++), and the loop index advances
MexTally ==
    /\ mpc = "trace"
    /\ rstate \in Terminal
    /\ LET idx == HistIndex(the_ray.nScatters)
       IN  IF Detected(rstate)
           THEN IF idx \in 0..(maxScatters - 1)
                THEN /\ numScattersRay' =
                           [numScattersRay EXCEPT ![idx + 1] = @ + 1]
                     /\ stray' = stray
                ELSE /\ numScattersRay' = numScattersRay
                     /\ stray' = stray + 1
           ELSE UNCHANGED <<numScattersRay, stray>>
    /\ i' = i + 1
    /\ mpc' = "loop"
    /\ rstate' = "None"
    /\ the_ray' = NoRay
    /\ hit' = NoCandidate
    /\ UNCHANGED <<minputs, my_rng, cntr_detected, killed, calls, prev>>
    /\ UNCHANGED <<kvars, svars>>

\* the loop is over: the counts are output and the generator freed
MexExit ==
    /\ mpc = "loop"
    /\ ~LoopGuard(i, nrays)
    /\ mpc' = "done"
    /\ UNCHANGED <<minputs, my_rng, i, the_ray, rstate, hit, cntr_detected, killed,
                   numScattersRay, stray, calls, prev>>
    /\ UNCHANGED <<kvars, svars>>

\* what a call returns: plhs[0], plhs[1], plhs[2]
Outputs == <<cntr_detected, killed, numScattersRay>>

\* mexFunction is called a second time with the same inputs
MexCallAgain ==
    /\ mpc = "done"
    /\ calls < 2
    /\ prev' = Outputs
    /\ calls' = calls + 1
    /\ mpc' = "entry"
    /\ UNCHANGED <<minputs, my_rng, i, the_ray, rstate, hit, cntr_detected, killed,
                   numScattersRay, stray>>
    /\ UNCHANGED <<kvars, svars>>

MexNext ==
    \/ MexEntry \/ MexCreateRay \/ RayFlight \/ RayScatter \/ MexTally \/ MexExit
    \/ MexCallAgain

Init == MexInit /\ KernelIdle /\ ScanIdle

Next == MexNext

Spec == Init /\ [][Next]_vars


(***************************************************************************)
(* Properties of the ray loop                                              *)
(***************************************************************************)
\* the rays that were neither detected nor killed (diedNaturally of
\* traceSimpleMulti)
escapes == nrays - cntr_detected - killed

\* C1: between two rays and after the loop the histogram holds the detected
\* rays and no ray is counted twice; once all nrays rays are traced,
\* sum(numScattersRay) + killed + escapes = nrays with escapes >= 0.
C1_EveryRayCounted ==
    /\ mpc \in {"loop", "done"} =>
          /\ SumSeq(numScattersRay) = cntr_detected
          /\ cntr_detected + killed <= i
    /\ mpc = "done" =>
          /\ i = nrays
          /\ escapes >= 0
          /\ SumSeq(numScattersRay) + killed + escapes = nrays

\* C1 witness: a finished loop with a detected and a killed ray
C1_Witness ==
    mpc = "done" /\ nrays = MaxRays /\ cntr_detected >= 1 /\ killed >= 1

RaySteps == 2 * maxScatters + 3

\* the steps the ray being traced has left at most
RayLeft ==
    IF rstate \in {"Initial", "Flight"} THEN 2 * (maxScatters - the_ray.nScatters) + 2
    ELSE IF rstate = "Scatter" THEN 2 * (maxScatters - the_ray.nScatters) + 1
    ELSE 1

\* the steps this call of mexFunction has left at most
CallLeft ==
    IF mpc = "entry" THEN nrays * RaySteps + 2
    ELSE IF mpc = "loop" THEN (nrays - i) * RaySteps + 1
    ELSE IF mpc = "trace" THEN (nrays - i - 1) * RaySteps + 1 + RayLeft
    ELSE 0

\* the steps left at most, over the calls made of mexFunction
StepsLeft == (2 - calls) * (nrays * RaySteps + 3) + CallLeft

\* mexFunction has returned, or the step it is at can be taken
ReturnedOrRunning ==
    \/ mpc \in {"done", "aborted"}
    \/ mpc \in {"entry", "loop"}
    \/ mpc = "trace" /\ rstate \in {"Initial", "Flight", "Scatter"} \cup Terminal

\* C6: a ray never has more than maxScatters events; the state it ends in is
\* left only by the end of the loop body; every step of the propagation and
\* of the loop lowers a bound on the steps left, which is never negative, and
\* the program is never stuck before it returns, so that every trace and the
\* loop end; the loop ends after exactly nrays traces.
C6_RayTerminates ==
    /\ [](the_ray.nScatters <= maxScatters)
    /\ [][(rstate \in Terminal) =>
             (rstate' = rstate \/ (rstate' = "None" /\ mpc' = "loop" /\ i' = i + 1))]_vars
    /\ [][StepsLeft' < StepsLeft]_vars
    /\ [](StepsLeft >= 0 /\ ReturnedOrRunning)
    /\ [](mpc = "done" => i = nrays)

\* C6 witness: a ray killed at the last event allowed
C6_Witness ==
    /\ rstate = "Killed"
    /\ maxScatters = MaxScatter
    /\ the_ray.nScatters = maxScatters
    /\ i = nrays - 1

\* C7: a second call of mexFunction with the same inputs returns the tallies
\* of the first.
C7_SameTallies ==
    (mpc = "done" /\ calls = 2) => Outputs = prev


\* the flight of the ray meets a runtime anomaly: the 3x3 system of a triangle
\* that reaches the solve is singular
SingularMet(ray, sample) ==
    \E j \in 0..(sample.n_faces - 1) :
        /\ ~OnThisTriangle(ray, sample, j)
        /\ ~BackFacing(get_element3D(sample, j).normal, ray.direction)
        /\ ~BehindRay(get_element3D(sample, j), ray.position, ray.direction)
        /\ solve3x3(TriagMatrix(get_element3D(sample, j), ray.direction),
                    VSub(get_element3D(sample, j).a, ray.position)).success = 0

\* C16: a ray that meets a runtime anomaly while it is traced (a triangle
\* whose 3x3 system is singular) is dropped from the tallies: its flight adds
\* nothing to the detected count or the killed count, and it adds nothing to
\* the histogram.
C16_AnomalousRayDropped ==
    [][(mpc = "trace" /\ SingularMet(the_ray, MexScenes[scene].Sample))
       => (/\ cntr_detected' = cntr_detected
           /\ killed' = killed
           /\ numScattersRay' = numScattersRay)]_vars

ScanSpan == 2
MaxPixels == 4

\* the pose of the sample handed to rectangularScan: the position of a
\* reference vertex (moveBy shifts every vertex alike)
InitialPose == <<1, -2, -1>>

\* the handle of sample_surface
sample_surface == 0

\* TriagSurface.moveBy: the vertices are shifted by the vector
moveBy(pose, v) == [n \in 1..3 |-> pose[n] + v[n]]

\* lo:step:hi
ColonRange(lo, step, hi) ==
    IF hi < lo THEN <<>>
    ELSE [n \in 1..((hi - lo) \div step + 1) |-> lo + (n - 1) * step]

sample_xs == ColonRange(scan.xrange[1], scan.raster_movement, scan.xrange[2])
sample_zs == ColonRange(scan.zrange[1], scan.raster_movement, scan.zrange[2])
nx_pixels == Len(sample_xs)
nz_pixels == Len(sample_zs)
N_pixels == nx_pixels * nz_pixels

\* the x and z pixels of the task with index idx among nz rows
z_pix(idx, nz) ==
    LET z == (idx % nz) - 1
    IN  IF z = -1 THEN nz - 1 ELSE z

x_pix(idx, nz) ==
    IF idx % nz = 0 THEN (idx \div nz) - 1 ELSE idx \div nz

\* the cell (row, column), from 1, of an array of nrows rows that the linear
\* index idx addresses: the arrays are stored column by column, and
\* counters(:, i_) addresses the maxScatter by nz_pixels*nx_pixels reshaping
ind2sub(nrows, idx) ==
    [row |-> ((idx - 1) % nrows) + 1, col |-> ((idx - 1) \div nrows) + 1]

\* copy(sample_surface): a new object (at the handle fresh) with the contents
\* of the object copied; the handle of the new object is returned
copy(obj, fresh) == fresh

\* the column of counters, num_killed and effuse_counters that the task with
\* index idx assigns
Column(idx) == idx

\* the fate of one ray of a beam on the surface in this pose, with the sphere
\* at this scan position: 0 detected, 1 killed, 2 neither
RayOutcome(ray, pose, scan_pos_x, scan_pos_z) ==
    (ray + pose[1] + 2 * pose[3] + scan_pos_x + scan_pos_z) % 3

\* trace_rays: the tallies of the rays of the beam ray_pos traced on the surface
\* in this pose, with the sphere at this scan position: the number detected,
\* the number killed, and the numbers of scattering events of the detected
\* rays; its result is a function of what it is handed
trace_rays(ray_pos, pose, scan_pos_x, scan_pos_z, maxScatter) ==
    LET detected ==
            SelectSeq(ray_pos,
                      LAMBDA r : RayOutcome(r, pose, scan_pos_x, scan_pos_z) = 0)
    IN  [cntr |-> Len(detected),
         killed |-> Len(SelectSeq(ray_pos,
                        LAMBDA r : RayOutcome(r, pose, scan_pos_x, scan_pos_z) = 1)),
         numScattersRayDetect |->
            [n \in 1..Len(detected) |-> 1 + ((detected[n] + pose[3]) % maxScatter)]]

\* the effuse count taken from the second output of trace_rays, the number
\* of killed rays, where the first is due
SecondOutput(effuse_pos, pose, scan_pos_x, scan_pos_z, maxScatter) ==
    IF Len(effuse_pos) = 0 THEN 0
    ELSE trace_rays(effuse_pos, pose, scan_pos_x, scan_pos_z, maxScatter).killed

\* the effusive beam: not traced when no effusive rays are supplied
effuse_beam(effuse_pos, pose, scan_pos_x, scan_pos_z, maxScatter) ==
    IF Len(effuse_pos) = 0 THEN 0
    ELSE trace_rays(effuse_pos, pose, scan_pos_x, scan_pos_z, maxScatter).cntr

\* binMyWay: the numbers of scattering events binned in 1..maxScatter
binMyWay(numScatters, maxScatter) ==
    [n \in 1..maxScatter |->
        Cardinality({j \in DOMAIN numScatters : numScatters[j] = n})]

ScanInputs ==
    {[xrange |-> <<lo[1], lo[1] + wx>>, zrange |-> <<lo[2], lo[2] + wz>>,
      raster_movement |-> step, maxScatter |-> 2,
      make_sphere |-> sph, ray_pos |-> <<1, 2>>, effuse_pos |-> eff] :
        lo \in {<<-1, 2>>, <<0, 0>>}, wx \in -1..ScanSpan, wz \in -1..ScanSpan,
        step \in 1..2, sph \in {0, 1}, eff \in {<<>>, <<3, 4, 6>>}}

\* a pixel task before it starts
NewTask ==
    [pc |-> "start", this_surface |-> -1, x_pix |-> -1, z_pix |-> -1,
     killed |-> 0, histRay |-> <<>>, effuse_cntr |-> 0, traced |-> <<>>]

\* rectangularScan is called
ScanInit ==
    /\ spc = "setup"
    /\ scan \in ScanInputs
    /\ N_pixels <= MaxPixels
    /\ surf = (sample_surface :> [alive |-> TRUE, pose |-> InitialPose])
    /\ task = <<>> /\ counters = <<>> /\ num_killed = <<>>
    /\ effuse_counters = <<>> /\ writers = <<>>
    /\ cancel = FALSE
    /\ KernelIdle /\ MexIdle

\* the sample is moved to the corner of the scan and the outputs are created
ScanSetup ==
    /\ spc = "setup"
    /\ surf' = [surf EXCEPT ![sample_surface].pose =
                    moveBy(@, <<scan.xrange[1], 0, scan.zrange[1]>>)]
    /\ counters' = [c \in 1..N_pixels |-> Zeros(scan.maxScatter)]
    /\ effuse_counters' = [c \in 1..N_pixels |-> 0]
    /\ num_killed' = [c \in 1..N_pixels |-> 0]
    /\ task' = [t \in 1..N_pixels |-> NewTask]
    /\ spc' = "parfor"
    /\ UNCHANGED <<scan, writers, cancel>>
    /\ UNCHANGED <<kvars, mvars>>

\* a pixel task finds its pixel and copies the sample
TaskCopy(t) ==
    /\ spc = "parfor"
    /\ task[t].pc = "start"
    /\ LET this == copy(sample_surface, t)
       IN  /\ surf' = IF this \in DOMAIN surf THEN surf
                      ELSE surf @@ (this :> surf[sample_surface])
           /\ task' = [task EXCEPT ![t].pc = "copied",
                                   ![t].this_surface = this,
                                   ![t].x_pix = x_pix(t, nz_pixels),
                                   ![t].z_pix = z_pix(t, nz_pixels)]
    /\ UNCHANGED <<spc, scan, counters, num_killed, effuse_counters, writers, cancel>>
    /\ UNCHANGED <<kvars, mvars>>

\* the task moves its surface to the position of its pixel
TaskMoveBy(t) ==
    /\ spc = "parfor"
    /\ task[t].pc = "copied"
    /\ surf' = [surf EXCEPT ![task[t].this_surface].pose =
                    moveBy(@, <<scan.raster_movement * task[t].x_pix, 0,
                                scan.raster_movement * task[t].z_pix>>)]
    /\ task' = [task EXCEPT ![t].pc = "moved"]
    /\ UNCHANGED <<spc, scan, counters, num_killed, effuse_counters, writers, cancel>>
    /\ UNCHANGED <<kvars, mvars>>

\* the task traces the main beam and the effusive beam and bins the result
TaskTrace(t) ==
    /\ spc = "parfor"
    /\ task[t].pc = "moved"
    /\ LET scan_pos_x == IF scan.make_sphere = 1
                         THEN scan.xrange[1] + scan.raster_movement * task[t].x_pix
                         ELSE 0
           scan_pos_z == IF scan.make_sphere = 1
                         THEN scan.zrange[1] + scan.raster_movement * task[t].z_pix
                         ELSE 0
           main == trace_rays(scan.ray_pos, surf[task[t].this_surface].pose,
                              scan_pos_x, scan_pos_z, scan.maxScatter)
       IN  task' = [task EXCEPT
                       ![t].pc = "traced",
                       ![t].traced = surf[task[t].this_surface].pose,
                       ![t].killed = main.killed,
                       ![t].effuse_cntr =
                           effuse_beam(scan.effuse_pos,
                                       surf[task[t].this_surface].pose,
                                       scan_pos_x, scan_pos_z, scan.maxScatter),
                       ![t].histRay = binMyWay(main.numScattersRayDetect,
                                               scan.maxScatter)]
    /\ UNCHANGED <<spc, scan, surf, counters, num_killed, effuse_counters, writers,
                   cancel>>
    /\ UNCHANGED <<kvars, mvars>>

\* the task assigns its column of the outputs and deletes its surface
TaskWrite(t) ==
    /\ spc = "parfor"
    /\ task[t].pc = "traced"
    /\ counters' = [counters EXCEPT ![Column(t)] = task[t].histRay]
    /\ num_killed' = [num_killed EXCEPT ![Column(t)] = task[t].killed]
    /\ effuse_counters' = [effuse_counters EXCEPT ![Column(t)] = task[t].effuse_cntr]
    /\ writers' = Append(writers, <<t, Column(t)>>)
    /\ surf' = [surf EXCEPT ![task[t].this_surface].alive = FALSE]
    /\ task' = [task EXCEPT ![t].pc = "done"]
    /\ UNCHANGED <<spc, scan, cancel>>
    /\ UNCHANGED <<kvars, mvars>>

\* the loop is over: the outputs go into the RectangleInfo returned
ScanAssemble ==
    /\ spc = "parfor"
    /\ \A t \in 1..N_pixels : task[t].pc = "done"
    /\ spc' = "done"
    /\ UNCHANGED <<scan, surf, task, counters, num_killed, effuse_counters, writers,
                   cancel>>
    /\ UNCHANGED <<kvars, mvars>>

\* the caller asks for the scan to be cancelled while the loop runs; no
\* statement of rectangularScan reads the request
ScanCancel ==
    /\ spc = "parfor"
    /\ ~cancel
    /\ cancel' = TRUE
    /\ UNCHANGED <<spc, scan, surf, task, counters, num_killed, effuse_counters,
                   writers>>
    /\ UNCHANGED <<kvars, mvars>>

ScanNext ==
    \/ ScanSetup
    \/ \E t \in 1..N_pixels : TaskCopy(t)
    \/ \E t \in 1..N_pixels : TaskMoveBy(t)
    \/ \E t \in 1..N_pixels : TaskTrace(t)
    \/ \E t \in 1..N_pixels : TaskWrite(t)
    \/ ScanAssemble
    \/ ScanCancel

SpecScan == ScanInit /\ [][ScanNext]_vars

(***************************************************************************)
(* Properties of the scan                                                  *)
(***************************************************************************)
\* the pixel of a column of the outputs, from the layout of the nz_pixels by
\* nx_pixels arrays
PixelOfColumn(c) == [x |-> (c - 1) \div nz_pixels, z |-> (c - 1) % nz_pixels]

\* the displacement of the sample from its initial pose due at a pixel
DueDisplacement(px) ==
    <<scan.xrange[1] + px.x * scan.raster_movement, 0,
      scan.zrange[1] + px.z * scan.raster_movement>>

\* the tallies of a beam due in a column of the outputs: those of the sample
\* displaced as its pixel requires
DueOf(beam, c) ==
    LET px == PixelOfColumn(c)
        disp == DueDisplacement(px)
    IN  trace_rays(beam, moveBy(InitialPose, disp),
                   IF scan.make_sphere = 1 THEN disp[1] ELSE 0,
                   IF scan.make_sphere = 1 THEN disp[3] ELSE 0, scan.maxScatter)

\* those of the main beam
DueTallies(c) == DueOf(scan.ray_pos, c)

\* the writes made so far to column c
WritesTo(c) == SelectSeq(writers, LAMBDA w : w[2] = c)

\* C8: whatever the interleaving of the pixel tasks, task i_ writes only
\* column i_ of the outputs, no column is written twice, and when the loop
\* is over every column has been written exactly once and holds the tallies
\* of its pixel, so the outputs are those of any other schedule.
C8_DisjointWrites ==
    spc \in {"parfor", "done"} =>
        /\ \A n \in 1..Len(writers) : writers[n][2] = writers[n][1]
        /\ \A c \in 1..N_pixels : Len(WritesTo(c)) <= 1
        /\ \A c \in 1..N_pixels :
              WritesTo(c) = <<>> =>
                  /\ counters[c] = Zeros(scan.maxScatter)
                  /\ num_killed[c] = 0 /\ effuse_counters[c] = 0
        /\ spc = "done" =>
              \A c \in 1..N_pixels :
                  /\ Len(WritesTo(c)) = 1
                  /\ counters[c] = binMyWay(DueTallies(c).numScattersRayDetect,
                                            scan.maxScatter)
                  /\ num_killed[c] = DueTallies(c).killed
                  /\ effuse_counters[c] =
                        IF scan.effuse_pos = <<>> THEN 0
                        ELSE DueOf(scan.effuse_pos, c).cntr

\* C8 witness: a scan of two by two pixels ended, the last task wrote first
C8_Witness ==
    /\ spc = "done"
    /\ nx_pixels = 2 /\ nz_pixels = 2
    /\ writers[1][1] = 4
    /\ writers[4][1] = 2

\* C9: whatever the interleaving, the surface a task has moved, and the one
\* it traces, is displaced from the initial pose of the sample by
\* (xrange(1) + x_pix step, 0, zrange(1) + z_pix step) for its own pixel, the
\* pixels of the tasks being all the pixels of the scan; and sample_surface
\* stays as the set-up left it.
C9_DisplacementPerPixel ==
    spc \in {"parfor", "done"} =>
        /\ surf[sample_surface] =
              [alive |-> TRUE,
               pose |-> moveBy(InitialPose, <<scan.xrange[1], 0, scan.zrange[1]>>)]
        /\ \A t \in 1..N_pixels :
              /\ task[t].pc # "start" =>
                    /\ <<task[t].x_pix, task[t].z_pix>> \in
                          (0..(nx_pixels - 1)) \X (0..(nz_pixels - 1))
                    /\ \A u \in 1..N_pixels :
                          (u # t /\ task[u].pc # "start") =>
                              <<task[u].x_pix, task[u].z_pix>> #
                                  <<task[t].x_pix, task[t].z_pix>>
              /\ task[t].pc = "moved" =>
                    surf[task[t].this_surface].pose =
                        moveBy(InitialPose,
                               DueDisplacement([x |-> task[t].x_pix, z |-> task[t].z_pix]))
              /\ task[t].pc \in {"traced", "done"} =>
                    task[t].traced =
                        moveBy(InitialPose,
                               DueDisplacement([x |-> task[t].x_pix, z |-> task[t].z_pix]))

\* C9 witness: the task of the last pixel has traced its surface, displaced in
\* x and in z, after another task ended and before the first task started
C9_Witness ==
    /\ spc = "parfor"
    /\ nx_pixels = 2 /\ nz_pixels = 2
    /\ task[1].pc = "start"
    /\ task[2].pc = "done"
    /\ task[4].pc = "traced"
    /\ task[4].x_pix = 1 /\ task[4].z_pix = 1
    /\ task[4].traced # surf[sample_surface].pose

\* the rays of a beam detected at the pixel of column c
DetectedAt(beam, c) ==
    LET disp == DueDisplacement(PixelOfColumn(c))
    IN  {n \in 1..Len(beam) :
            RayOutcome(beam[n], moveBy(InitialPose, disp),
                       IF scan.make_sphere = 1 THEN disp[1] ELSE 0,
                       IF scan.make_sphere = 1 THEN disp[3] ELSE 0) = 0}

\* C18: for each pixel the effuse count is the number of detected rays of the
\* effusive pass, and 0 when no effusive rays are supplied; the histogram and
\* the killed count of the pixel are those of the main beam alone, whatever
\* the effusive rays.
C18_EffuseCountSeparate ==
    spc \in {"parfor", "done"} =>
        \A t \in 1..N_pixels :
            /\ task[t].pc \in {"traced", "done"} =>
                  /\ task[t].effuse_cntr =
                        Cardinality(DetectedAt(scan.effuse_pos, Column(t)))
                  /\ scan.effuse_pos = <<>> => task[t].effuse_cntr = 0
                  /\ task[t].killed = DueOf(scan.ray_pos, Column(t)).killed
                  /\ task[t].histRay =
                        binMyWay(DueOf(scan.ray_pos, Column(t)).numScattersRayDetect,
                                 scan.maxScatter)
                  /\ SumSeq(task[t].histRay) =
                        Cardinality(DetectedAt(scan.ray_pos, Column(t)))
            /\ task[t].pc = "done" =>
                  /\ effuse_counters[Column(t)] = task[t].effuse_cntr
                  /\ num_killed[Column(t)] = task[t].killed
                  /\ counters[Column(t)] = task[t].histRay

\* C18 witness: a scan with effusive rays ended with a pixel whose effuse
\* count differs from the number of detected rays of its main beam
C18_Witness ==
    /\ spc = "done"
    /\ scan.effuse_pos # <<>>
    /\ N_pixels >= 2
    /\ \E c \in 1..N_pixels :
          /\ effuse_counters[c] > 0
          /\ effuse_counters[c] # SumSeq(counters[c])
          /\ num_killed[c] > 0

\* the pixels of the scan
PixelGrid == (0..(nx_pixels - 1)) \X (0..(nz_pixels - 1))

\* C22: the task index i_ in 1..nx*nz maps to (x_pix, z_pix) with
\* 0 <= x_pix < nx, 0 <= z_pix < nz and i_ = x_pix*nz + z_pix + 1; the mapping
\* is a bijection onto the pixel grid; and the writes at the linear index i_
\* land in cell [z_pix][x_pix] of the nz by nx arrays.
C22_IndexToPixel ==
    spc \in {"parfor", "done"} =>
        /\ \A t \in 1..N_pixels :
              task[t].pc # "start" =>
                  /\ task[t].x_pix \in 0..(nx_pixels - 1)
                  /\ task[t].z_pix \in 0..(nz_pixels - 1)
                  /\ t = task[t].x_pix * nz_pixels + task[t].z_pix + 1
        /\ {<<x_pix(t, nz_pixels), z_pix(t, nz_pixels)>> : t \in 1..N_pixels} = PixelGrid
        /\ \A t, u \in 1..N_pixels :
              (x_pix(t, nz_pixels) = x_pix(u, nz_pixels)
                  /\ z_pix(t, nz_pixels) = z_pix(u, nz_pixels)) => t = u
        /\ \A n \in 1..Len(writers) :
              ind2sub(nz_pixels, writers[n][2]) =
                  [row |-> task[writers[n][1]].z_pix + 1,
                   col |-> task[writers[n][1]].x_pix + 1]

\* C22 witness: in a scan of two by two pixels the task whose index is a
\* multiple of nz_pixels has written the cell of pixel x = 0, z = 1
C22_Witness ==
    /\ spc = "parfor"
    /\ nx_pixels = 2 /\ nz_pixels = 2
    /\ task[2].pc = "done"
    /\ task[2].x_pix = 0 /\ task[2].z_pix = 1
    /\ \E n \in 1..Len(writers) :
          writers[n] = <<2, 2>> /\ ind2sub(nz_pixels, 2) = [row |-> 2, col |-> 1]

\* C17: cancellation is cooperative between the pixel tasks: once the cancel
\* flag is set no pixel task that has not yet started starts (so it traces
\* nothing and writes no tally), while the tasks already running go on to
\* complete their pixel.
C17_NoStartAfterCancel ==
    [][(spc = "parfor" /\ cancel)
       => (\A t \in 1..N_pixels :
              task[t].pc = "start"
              => (/\ task'[t].pc = "start"
                  /\ counters'[Column(t)] = Zeros(scan.maxScatter)
                  /\ num_killed'[Column(t)] = 0))]_vars

=============================================================================
